---- MODULE Spec2Model ----
(***************************************************************************)
(* Model of the SSE client: the frame segmenter (eventScannerFunc driven   *)
(* by a bufio.Scanner), the event decoder (readEvent) and the streaming    *)
(* session with its registry of stop channels (Client.Stream,              *)
(* Client.StopStream, Client.closeRespAndCurrStreamCh).                    *)
(***************************************************************************)
EXTENDS Integers, Sequences, FiniteSets, TLC

(***************************************************************************)
(* Bounds                                                                  *)
(***************************************************************************)
\* number of sessions started with Client.Stream
NSessions == 2
\* number of goroutines that call Client.StopStream
NCallers == 1
\* longest byte sequence fed to the segmenter on its own
MaxSegLen == 6
\* most lines in a frame handed to the decoder on its own
MaxLines == 2

(***************************************************************************)
(* Bytes.  A byte is a string naming it; a byte slice is a sequence.       *)
(***************************************************************************)
CR == "CR"
LF == "LF"
COLON == ":"
SPACE == " "
NUL == "NUL"

CRLFCRLF == <<CR, LF, CR, LF>>
LFLF == <<LF, LF>>
CRCR == <<CR, CR>>

\* data[from:] with a 0-based offset, as a Go slice expression
SliceFrom(data, from) == SubSeq(data, from + 1, Len(data))
\* data[0:to]
SliceTo(data, to) == SubSeq(data, 1, to)

\* bytes.Index: 0-based offset of the first occurrence of pat, or -1
Index(data, pat) ==
    LET hits == {i \in 0..(Len(data) - Len(pat)) :
                    SubSeq(data, i + 1, i + Len(pat)) = pat}
    IN IF hits = {} THEN -1
       ELSE CHOOSE i \in hits : \A j \in hits : i <= j

Contains(data, pat) == Index(data, pat) >= 0

HasPrefix(data, pat) ==
    Len(data) >= Len(pat) /\ SubSeq(data, 1, Len(pat)) = pat

HasSuffix(data, pat) ==
    Len(data) >= Len(pat)
    /\ SubSeq(data, Len(data) - Len(pat) + 1, Len(data)) = pat

TrimPrefix(data, pat) ==
    IF HasPrefix(data, pat) THEN SliceFrom(data, Len(pat)) ELSE data

TrimSuffix(data, pat) ==
    IF HasSuffix(data, pat) THEN SliceTo(data, Len(data) - Len(pat)) ELSE data

(***************************************************************************)
(* Frame segmenter: the split function of the scanner                      *)
(***************************************************************************)
NoToken == [advance |-> 0, hasToken |-> FALSE, token |-> <<>>]

Token(adv, tok) == [advance |-> adv, hasToken |-> TRUE, token |-> tok]

\* a plausible slip: a single line feed already ends a frame
eventScannerFuncSingleLF(data, atEOF) ==
    IF atEOF /\ Len(data) = 0 THEN NoToken
    ELSE IF atEOF THEN Token(Len(data), data)
    ELSE IF Index(data, CRLFCRLF) >= 0
         THEN Token(Index(data, CRLFCRLF) + 1, SliceTo(data, Index(data, CRLFCRLF)))
    ELSE IF Index(data, <<LF>>) >= 0
         THEN Token(Index(data, <<LF>>) + 1, SliceTo(data, Index(data, <<LF>>)))
    ELSE IF Index(data, CRCR) >= 0
         THEN Token(Index(data, CRCR) + 1, SliceTo(data, Index(data, CRCR)))
    ELSE NoToken

eventScannerFunc(data, atEOF) ==
    IF atEOF /\ Len(data) = 0 THEN NoToken
    ELSE IF atEOF THEN Token(Len(data), data)
    ELSE IF Index(data, CRLFCRLF) >= 0
         THEN Token(Index(data, CRLFCRLF) + 1, SliceTo(data, Index(data, CRLFCRLF)))
    ELSE IF Index(data, LFLF) >= 0
         THEN Token(Index(data, LFLF) + 1, SliceTo(data, Index(data, LFLF)))
    ELSE IF Index(data, CRCR) >= 0
         THEN Token(Index(data, CRCR) + 1, SliceTo(data, Index(data, CRCR)))
    ELSE NoToken

(***************************************************************************)
(* The scanner over a body.  buf is the unconsumed part of the scanner's   *)
(* buffer, src the chunks the body's Read calls will still return, srcEnd  *)
(* the error the body ends with ("EOF" or a read error "ERR"), eofWithLast *)
(* whether that error comes with the last chunk or from a later empty      *)
(* read, err the scanner's sticky error.                                   *)
(***************************************************************************)
newEventScanner(body) ==
    [buf |-> <<>>, src |-> body.chunks, srcEnd |-> body.srcEnd,
     eofWithLast |-> body.eofWithLast, err |-> "nil"]

\* one Read of the body into the buffer
ScannerRead(sc) ==
    IF sc.src = <<>>
    THEN [sc EXCEPT !.err = sc.srcEnd]
    ELSE [sc EXCEPT !.buf = sc.buf \o Head(sc.src),
                    !.src = Tail(sc.src),
                    !.err = IF Tail(sc.src) = <<>> /\ sc.eofWithLast
                            THEN sc.srcEnd ELSE "nil"]

\* one iteration of the loop of Scanner.Scan
ScanIter(sc) ==
    IF Len(sc.buf) > 0 \/ sc.err # "nil"
    THEN LET r == eventScannerFunc(sc.buf, sc.err # "nil")
             sc1 == [sc EXCEPT !.buf = SliceFrom(sc.buf, r.advance)]
         IN IF r.hasToken
            THEN [kind |-> "token", sc |-> sc1, token |-> r.token]
            ELSE IF sc.err # "nil"
            THEN [kind |-> "stop", sc |-> [sc1 EXCEPT !.buf = <<>>], token |-> <<>>]
            ELSE [kind |-> "more", sc |-> ScannerRead(sc1), token |-> <<>>]
    ELSE [kind |-> "more", sc |-> ScannerRead(sc), token |-> <<>>]

RECURSIVE Scan(_)
\* Scanner.Scan: loop until a token or the end
Scan(sc) ==
    LET r == ScanIter(sc)
    IN IF r.kind = "more" THEN Scan(r.sc) ELSE r

\* Scanner.Err: io.EOF is not reported as an error
ScannerErr(sc) == IF sc.err = "EOF" THEN "nil" ELSE sc.err

scanEvent(sc) ==
    LET r == Scan(sc)
    IN IF r.kind = "token"
       THEN [sc |-> r.sc, bytes |-> r.token, err |-> "nil"]
       ELSE IF ScannerErr(r.sc) # "nil"
       THEN [sc |-> r.sc, bytes |-> <<>>, err |-> ScannerErr(r.sc)]
       ELSE [sc |-> r.sc, bytes |-> <<>>, err |-> "EOF"]

(***************************************************************************)
(* Event decoder                                                           *)
(***************************************************************************)
eventTypeEvent == <<"e", "v", "e", "n", "t">>
eventTypeData == <<"d", "a", "t", "a">>
eventTypeID == <<"i", "d">>
eventTypeRetry == <<"r", "e", "t", "r", "y">>

\* the zero Event; DataNil tells a nil Data from an empty one
NewEvent == [LastEventID |-> <<>>, Type |-> <<>>, Data |-> <<>>, DataNil |-> TRUE]

IsLineEnd(b) == b = LF \/ b = CR

RECURSIVE FieldsFunc(_, _)
\* bytes.FieldsFunc(data, isLineEnd): the maximal runs of other bytes;
\* cur is the run being collected
FieldsFunc(data, cur) ==
    IF data = <<>>
    THEN IF cur = <<>> THEN <<>> ELSE <<cur>>
    ELSE IF IsLineEnd(Head(data))
         THEN IF cur = <<>> THEN FieldsFunc(Tail(data), <<>>)
              ELSE <<cur>> \o FieldsFunc(Tail(data), <<>>)
         ELSE FieldsFunc(Tail(data), Append(cur, Head(data)))

RECURSIVE Split(_, _)
\* bytes.Split(line, sep) for a one-byte separator
Split(line, sep) ==
    LET i == Index(line, <<sep>>)
    IN IF i < 0 THEN <<line>>
       ELSE <<SliceTo(line, i)>> \o Split(SliceFrom(line, i + 1), sep)

\* field name and value of one line
LineField(line) ==
    IF Contains(line, <<COLON>>) THEN Split(line, COLON)[1] ELSE line

LineValue(line) ==
    IF Contains(line, <<COLON>>)
    THEN TrimPrefix(Split(line, COLON)[2], <<SPACE>>)
    ELSE <<>>

\* a decoder that matches the field name by prefix
ProcessLinePrefixMatch(event, line) ==
    IF HasPrefix(line, <<COLON>>) THEN event
    ELSE LET field == LineField(line)
             value == LineValue(line)
         IN IF HasPrefix(field, eventTypeEvent) THEN [event EXCEPT !.Type = value]
            ELSE IF HasPrefix(field, eventTypeData)
                 THEN [event EXCEPT !.Data = Append(value, LF), !.DataNil = FALSE]
            ELSE IF HasPrefix(field, eventTypeID)
                 THEN IF ~Contains(value, <<NUL>>)
                      THEN [event EXCEPT !.LastEventID = value]
                      ELSE event
            ELSE event

\* a decoder that appends every data line to the data buffer
ProcessLineAppendData(event, line) ==
    IF HasPrefix(line, <<COLON>>) THEN event
    ELSE LET field == LineField(line)
             value == LineValue(line)
         IN IF field = eventTypeEvent THEN [event EXCEPT !.Type = value]
            ELSE IF field = eventTypeData
                 THEN [event EXCEPT !.Data = @ \o Append(value, LF),
                                    !.DataNil = FALSE]
            ELSE IF field = eventTypeID
                 THEN IF ~Contains(value, <<NUL>>)
                      THEN [event EXCEPT !.LastEventID = value]
                      ELSE event
            ELSE event

\* the switch on the field name
ProcessLine(event, line) ==
    IF HasPrefix(line, <<COLON>>) THEN event
    ELSE LET field == LineField(line)
             value == LineValue(line)
         IN IF field = eventTypeEvent THEN [event EXCEPT !.Type = value]
            ELSE IF field = eventTypeData
                 THEN [event EXCEPT !.Data = Append(value, LF), !.DataNil = FALSE]
            ELSE IF field = eventTypeID
                 THEN IF ~Contains(value, <<NUL>>)
                      THEN [event EXCEPT !.LastEventID = value]
                      ELSE event
            ELSE event

RECURSIVE ProcessLines(_, _)
ProcessLines(event, lines) ==
    IF lines = <<>> THEN event
    ELSE ProcessLines(ProcessLine(event, Head(lines)), Tail(lines))

\* a decoder that reports an error for a frame without any line
readEventNoLines(data) ==
    IF FieldsFunc(data, <<>>) = <<>>
    THEN [ok |-> FALSE, event |-> NewEvent]
    ELSE LET e == ProcessLines(NewEvent, FieldsFunc(data, <<>>))
         IN [ok |-> TRUE, event |-> [e EXCEPT !.Data = TrimSuffix(e.Data, <<LF>>)]]

\* readEvent: ok is FALSE for the "data is empty" error
readEvent(data) ==
    IF Len(data) < 1
    THEN [ok |-> FALSE, event |-> NewEvent]
    ELSE LET e == ProcessLines(NewEvent, FieldsFunc(data, <<>>))
         IN [ok |-> TRUE, event |-> [e EXCEPT !.Data = TrimSuffix(e.Data, <<LF>>)]]

(***************************************************************************)
(* Streaming sessions                                                      *)
(***************************************************************************)
Sessions == 1..NSessions
Callers == 1..NCallers
\* an event channel no Stream call returned
NoSuchCh == 0

ID1 == <<"i", "d", COLON, "1">>
ID2 == <<"i", "d", COLON, "2">>

\* response bodies a status-200 request can return
Bodies ==
    { [chunks |-> <<>>, srcEnd |-> "EOF", eofWithLast |-> FALSE],
      [chunks |-> <<ID1 \o LFLF \o ID2 \o LFLF>>, srcEnd |-> "EOF", eofWithLast |-> FALSE],
      [chunks |-> <<LFLF \o ID1>>, srcEnd |-> "EOF", eofWithLast |-> FALSE],
      [chunks |-> <<>>, srcEnd |-> "ERR", eofWithLast |-> FALSE] }

NoBody == [chunks |-> <<>>, srcEnd |-> "EOF", eofWithLast |-> FALSE]

ErrStreamIsClosed == "ErrStreamIsClosed"

VARIABLES
    pc,                  \* where each session (Stream call, then its goroutine) is
    mutex,               \* Client.mutex: "free" or its holder
    currentlyStreaming,  \* keys of Client.currentlyStreaming (one stop channel each)
    closedStop,          \* stop channels that have been closed
    resp,                \* the goroutine's resp variable: "nil", "404" or "200"
    deferredResp,        \* the resp argument saved by the defer statement
    body,                \* the response body of a status-200 session
    scanner,             \* the session's eventScanner
    selCh,               \* the channel the select receives from: "stop" or "nil"
    pending,             \* the value a blocked channel send is offering
    evSent,              \* events the consumer received on the event channel
    errSent,             \* values the consumer received on the error channel
    bodyClosed,          \* number of resp.Body.Close() calls
    stopped,             \* the session received a stop request
    callerPc,            \* where each StopStream caller is
    callerTarget,        \* the channel it passed
    crashed,             \* the runtime aborted the process (concurrent map access)
    seg,                 \* the segmenter run on its own
    dec                  \* the decoder run on its own

sessVars == <<pc, resp, deferredResp, body, scanner, selCh, pending, evSent,
              errSent, bodyClosed, stopped>>
regVars == <<mutex, currentlyStreaming, closedStop>>
callerVars == <<callerPc, callerTarget>>
vars == <<sessVars, regVars, callerVars, crashed, seg, dec>>

Free == [kind |-> "free", id |-> 0]
Holder(kind, id) == [kind |-> kind, id |-> id]

SegOff == [phase |-> "off", input |-> NoBody, bytes |-> <<>>,
           sc |-> newEventScanner(NoBody), out |-> <<>>, err |-> "nil"]

DecOff == [phase |-> "off", lines |-> <<>>, term |-> <<LF>>, trailing |-> FALSE,
           frame |-> <<>>, res |-> [ok |-> FALSE, event |-> NewEvent]]

InitClient ==
    /\ pc = [s \in Sessions |-> "init"]
    /\ mutex = Free
    /\ currentlyStreaming = {}
    /\ closedStop = {}
    /\ resp = [s \in Sessions |-> "nil"]
    /\ deferredResp = [s \in Sessions |-> "nil"]
    /\ body = [s \in Sessions |-> NoBody]
    /\ scanner = [s \in Sessions |-> newEventScanner(NoBody)]
    /\ selCh = [s \in Sessions |-> "nil"]
    /\ pending = [s \in Sessions |-> "none"]
    /\ evSent = [s \in Sessions |-> <<>>]
    /\ errSent = [s \in Sessions |-> <<>>]
    /\ bodyClosed = [s \in Sessions |-> 0]
    /\ stopped = [s \in Sessions |-> FALSE]
    /\ callerPc = [k \in Callers |-> "idle"]
    /\ callerTarget = [k \in Callers |-> NoSuchCh]
    /\ crashed = FALSE

Init == InitClient /\ seg = SegOff /\ dec = DecOff

\* Stream: eventch := make(chan *Event); c.mutex.Lock()
StreamLock(s) ==
    /\ ~crashed
    /\ pc[s] = "init"
    /\ mutex = Free
    /\ mutex' = Holder("stream", s)
    /\ pc' = [pc EXCEPT ![s] = "registering"]
    /\ UNCHANGED <<resp, deferredResp, body, scanner, selCh, pending, evSent,
                   errSent, bodyClosed, stopped, currentlyStreaming, closedStop,
                   callerVars, crashed, seg, dec>>

\* the registry when Stream leaves the channel out
InsertEntrySkip(ch) == currentlyStreaming

\* c.currentlyStreaming[eventch] = make(chan bool)
InsertEntry(ch) == currentlyStreaming \cup {ch}

\* Stream: insert the stop channel, Unlock, start the goroutine, return
StreamRegister(s) ==
    /\ ~crashed
    /\ pc[s] = "registering"
    /\ currentlyStreaming' = InsertEntry(s)
    /\ mutex' = Free
    /\ pc' = [pc EXCEPT ![s] = "start"]
    /\ UNCHANGED <<resp, deferredResp, body, scanner, selCh, pending, evSent,
                   errSent, bodyClosed, stopped, closedStop, callerVars, crashed, seg, dec>>

\* the resp argument of the deferred call: the defer statement evaluates it
\* when it runs, before HTTPClient.Do assigns resp
DeferredRespArg(respAtDefer, respAfterDo) == respAtDefer

\* the deferred closeRespAndCurrStreamCh starts when the goroutine returns:
\* if resp != nil { resp.Body.Close() }, with the resp the defer saved
CloseResp(s, next) ==
    IF next = "teardownLock" /\ deferredResp[s] # "nil"
    THEN [bodyClosed EXCEPT ![s] = @ + 1]
    ELSE bodyClosed

\* where the goroutine goes after a send on errch: it returns
AfterErrSendMissingReturn == "scan"

AfterErrSend == "teardownLock"

\* where the goroutine goes after the stop channel delivered: it returns
AfterStopRecvBreak == "scan"

AfterStopRecv == "teardownLock"

\* goroutine: defer, then HTTPClient.Do fails
DoFails(s) ==
    /\ ~crashed
    /\ pc[s] = "start"
    /\ deferredResp' = [deferredResp EXCEPT ![s] = DeferredRespArg(resp[s], "nil")]
    /\ resp' = [resp EXCEPT ![s] = "nil"]
    /\ pending' = [pending EXCEPT ![s] = "DoError"]
    /\ pc' = [pc EXCEPT ![s] = "sendErr"]
    /\ UNCHANGED <<body, scanner, selCh, evSent, errSent, bodyClosed, stopped,
                   regVars, callerVars, crashed, seg, dec>>

\* goroutine: defer, then HTTPClient.Do returns a response whose status is not 200
DoNon200(s) ==
    /\ ~crashed
    /\ pc[s] = "start"
    /\ deferredResp' = [deferredResp EXCEPT ![s] = DeferredRespArg(resp[s], "404")]
    /\ resp' = [resp EXCEPT ![s] = "404"]
    /\ pending' = [pending EXCEPT ![s] = "Non200Error"]
    /\ pc' = [pc EXCEPT ![s] = "sendErr"]
    /\ UNCHANGED <<body, scanner, selCh, evSent, errSent, bodyClosed, stopped,
                   regVars, callerVars, crashed, seg, dec>>

\* goroutine: defer, then HTTPClient.Do returns status 200; newEventScanner
DoOK(s) ==
    /\ ~crashed
    /\ pc[s] = "start"
    /\ \E b \in Bodies :
        /\ body' = [body EXCEPT ![s] = b]
        /\ scanner' = [scanner EXCEPT ![s] = newEventScanner(b)]
    /\ deferredResp' = [deferredResp EXCEPT ![s] = DeferredRespArg(resp[s], "200")]
    /\ resp' = [resp EXCEPT ![s] = "200"]
    /\ pc' = [pc EXCEPT ![s] = "scan"]
    /\ UNCHANGED <<selCh, pending, evSent, errSent, bodyClosed, stopped,
                   regVars, callerVars, crashed, seg, dec>>

\* errch <- err, received by the consumer; return, which starts the
\* deferred call
SendErr(s) ==
    /\ ~crashed
    /\ pc[s] = "sendErr"
    /\ errSent' = [errSent EXCEPT ![s] = Append(errSent[s], pending[s])]
    /\ pending' = [pending EXCEPT ![s] = "none"]
    /\ pc' = [pc EXCEPT ![s] = AfterErrSend]
    /\ bodyClosed' = CloseResp(s, AfterErrSend)
    /\ UNCHANGED <<resp, deferredResp, body, scanner, selCh, evSent,
                   stopped, regVars, callerVars, crashed, seg, dec>>

\* a scanEvent error taken as a silent end of the loop
AfterScanErrorSilent == "teardownLock"

\* where the goroutine goes on a scanEvent error: to errch <- ...
AfterScanError == "sendErr"

\* the error the loop sends for a scanEvent error
StreamError(err) == IF err = "EOF" THEN ErrStreamIsClosed ELSE err

\* scanner.scanEvent() returns an error
ScanFails(s) ==
    /\ ~crashed
    /\ pc[s] = "scan"
    /\ LET r == scanEvent(scanner[s])
       IN /\ r.err # "nil"
          /\ scanner' = [scanner EXCEPT ![s] = r.sc]
          /\ pending' = [pending EXCEPT ![s] = StreamError(r.err)]
    /\ pc' = [pc EXCEPT ![s] = AfterScanError]
    /\ bodyClosed' = CloseResp(s, AfterScanError)
    /\ UNCHANGED <<resp, deferredResp, body, selCh, evSent, errSent,
                   stopped, regVars, callerVars, crashed, seg, dec>>

\* scanner.scanEvent() returns a frame and readEvent decodes it
ScanEvent(s) ==
    /\ ~crashed
    /\ pc[s] = "scan"
    /\ LET r == scanEvent(scanner[s])
       IN /\ r.err = "nil"
          /\ readEvent(r.bytes).ok
          /\ scanner' = [scanner EXCEPT ![s] = r.sc]
          /\ pending' = [pending EXCEPT ![s] = readEvent(r.bytes).event]
    /\ pc' = [pc EXCEPT ![s] = "sendEvent"]
    /\ UNCHANGED <<resp, deferredResp, body, selCh, evSent, errSent, bodyClosed,
                   stopped, regVars, callerVars, crashed, seg, dec>>

\* scanner.scanEvent() returns a frame readEvent rejects: no event is sent
ScanSkip(s) ==
    /\ ~crashed
    /\ pc[s] = "scan"
    /\ LET r == scanEvent(scanner[s])
       IN /\ r.err = "nil"
          /\ ~readEvent(r.bytes).ok
          /\ scanner' = [scanner EXCEPT ![s] = r.sc]
    /\ pc' = [pc EXCEPT ![s] = "select"]
    /\ UNCHANGED <<resp, deferredResp, body, selCh, pending, evSent, errSent,
                   bodyClosed, stopped, regVars, callerVars, crashed, seg, dec>>

\* eventch <- event, received by the consumer
SendEvent(s) ==
    /\ ~crashed
    /\ pc[s] = "sendEvent"
    /\ evSent' = [evSent EXCEPT ![s] = Append(evSent[s], pending[s])]
    /\ pending' = [pending EXCEPT ![s] = "none"]
    /\ pc' = [pc EXCEPT ![s] = "select"]
    /\ UNCHANGED <<resp, deferredResp, body, scanner, selCh, errSent, bodyClosed,
                   stopped, regVars, callerVars, crashed, seg, dec>>

\* another goroutine is inside a critical section that writes the map
MapWriteInProgress(s) ==
    /\ mutex.kind \in {"stream", "teardown"}
    /\ mutex.id # s

\* select: c.currentlyStreaming[eventch] is read without the mutex
SelectLookup(s) ==
    /\ ~crashed
    /\ pc[s] = "select"
    /\ selCh' = [selCh EXCEPT ![s] = IF s \in currentlyStreaming THEN "stop" ELSE "nil"]
    /\ pc' = [pc EXCEPT ![s] = "recv"]
    /\ UNCHANGED <<resp, deferredResp, body, scanner, pending, evSent, errSent,
                   bodyClosed, stopped, regVars, callerVars, crashed, seg, dec>>

\* the unlocked read races with a map write and misses the key: the select
\* receives from a nil channel
SelectLookupRaceNil(s) ==
    /\ ~crashed
    /\ pc[s] = "select"
    /\ MapWriteInProgress(s)
    /\ selCh' = [selCh EXCEPT ![s] = "nil"]
    /\ pc' = [pc EXCEPT ![s] = "recv"]
    /\ UNCHANGED <<resp, deferredResp, body, scanner, pending, evSent, errSent,
                   bodyClosed, stopped, regVars, callerVars, crashed, seg, dec>>

\* the unlocked read races with a map write and the runtime aborts:
\* "concurrent map read and map write"
SelectLookupRaceCrash(s) ==
    /\ ~crashed
    /\ pc[s] = "select"
    /\ MapWriteInProgress(s)
    /\ crashed' = TRUE
    /\ UNCHANGED <<sessVars, regVars, callerVars, seg, dec>>

\* the ok of streamch, ok := c.currentlyStreaming[ch], without the check
HasEntryUnchecked(ch) == TRUE

HasEntry(ch) == ch \in currentlyStreaming

\* StopStream: c.mutex.Lock()
StopLock(k) ==
    /\ ~crashed
    /\ callerPc[k] = "idle"
    /\ mutex = Free
    /\ \E ch \in {NoSuchCh} \cup {s \in Sessions : pc[s] \notin {"init", "registering"}} :
        callerTarget' = [callerTarget EXCEPT ![k] = ch]
    /\ mutex' = Holder("stop", k)
    /\ callerPc' = [callerPc EXCEPT ![k] = "lookup"]
    /\ UNCHANGED <<sessVars, currentlyStreaming, closedStop, crashed, seg, dec>>

\* StopStream: the channel has an entry, go on to streamch <- true
StopLookupHit(k) ==
    /\ ~crashed
    /\ callerPc[k] = "lookup"
    /\ HasEntry(callerTarget[k])
    /\ callerPc' = [callerPc EXCEPT ![k] = "send"]
    /\ UNCHANGED <<sessVars, regVars, callerTarget, crashed, seg, dec>>

\* StopStream: the channel has no entry, nothing is sent
StopLookupMiss(k) ==
    /\ ~crashed
    /\ callerPc[k] = "lookup"
    /\ ~HasEntry(callerTarget[k])
    /\ callerPc' = [callerPc EXCEPT ![k] = "missed"]
    /\ UNCHANGED <<sessVars, regVars, callerTarget, crashed, seg, dec>>

\* streamch <- true meets the session's receive in the select: the
\* goroutine returns, which starts the deferred call
StopSend(k) ==
    /\ ~crashed
    /\ callerPc[k] = "send"
    /\ callerTarget[k] \in Sessions
    /\ LET s == callerTarget[k]
       IN /\ pc[s] = "recv"
          /\ selCh[s] = "stop"
          /\ s \notin closedStop
          /\ pc' = [pc EXCEPT ![s] = AfterStopRecv]
          /\ bodyClosed' = CloseResp(s, AfterStopRecv)
          /\ stopped' = [stopped EXCEPT ![s] = TRUE]
    /\ callerPc' = [callerPc EXCEPT ![k] = "sent"]
    /\ UNCHANGED <<resp, deferredResp, body, scanner, selCh, pending, evSent,
                   errSent, regVars, callerTarget, crashed, seg, dec>>

\* StopStream: the deferred c.mutex.Unlock(), and return
StopUnlock(k) ==
    /\ ~crashed
    /\ callerPc[k] \in {"missed", "sent"}
    /\ mutex' = Free
    /\ callerPc' = [callerPc EXCEPT ![k] = "idle"]
    /\ callerTarget' = [callerTarget EXCEPT ![k] = NoSuchCh]
    /\ UNCHANGED <<sessVars, currentlyStreaming, closedStop, crashed, seg, dec>>

\* closeRespAndCurrStreamCh: c.mutex.Lock()
TeardownLock(s) ==
    /\ ~crashed
    /\ pc[s] = "teardownLock"
    /\ mutex = Free
    /\ mutex' = Holder("teardown", s)
    /\ pc' = [pc EXCEPT ![s] = "teardownWrite"]
    /\ UNCHANGED <<resp, deferredResp, body, scanner, selCh, pending, evSent,
                   errSent, bodyClosed, stopped, currentlyStreaming, closedStop,
                   callerVars, crashed, seg, dec>>

\* the registry after the entry of ch is left in place
RemoveEntryKeep(ch) == currentlyStreaming

\* delete(c.currentlyStreaming, ch)
RemoveEntry(ch) == currentlyStreaming \ {ch}

\* closeRespAndCurrStreamCh: close and delete the entry if present, Unlock
TeardownDelete(s) ==
    /\ ~crashed
    /\ pc[s] = "teardownWrite"
    /\ IF HasEntry(s)
       THEN /\ closedStop' = closedStop \cup {s}
            /\ currentlyStreaming' = RemoveEntry(s)
       ELSE UNCHANGED <<currentlyStreaming, closedStop>>
    /\ mutex' = Free
    /\ pc' = [pc EXCEPT ![s] = "done"]
    /\ UNCHANGED <<resp, deferredResp, body, scanner, selCh, pending, evSent,
                   errSent, bodyClosed, stopped, callerVars, crashed, seg, dec>>

SessionStep(s) ==
    \/ StreamLock(s)
    \/ StreamRegister(s)
    \/ DoFails(s)
    \/ DoNon200(s)
    \/ DoOK(s)
    \/ SendErr(s)
    \/ ScanFails(s)
    \/ ScanEvent(s)
    \/ ScanSkip(s)
    \/ SendEvent(s)
    \/ SelectLookup(s)
    \/ SelectLookupRaceNil(s)
    \/ SelectLookupRaceCrash(s)
    \/ TeardownLock(s)
    \/ TeardownDelete(s)

CallerStep(k) ==
    \/ StopLock(k)
    \/ StopLookupHit(k)
    \/ StopLookupMiss(k)
    \/ StopSend(k)
    \/ StopUnlock(k)

Next ==
    \/ \E s \in Sessions : SessionStep(s)
    \/ \E k \in Callers : CallerStep(k)

Spec == Init /\ [][Next]_vars

NextNoStop == \E s \in Sessions : SessionStep(s)

\* the sessions on their own: StopStream is never called
SpecNoStop == Init /\ [][NextNoStop]_vars

(***************************************************************************)
(* The segmenter on its own: scanEvent called until it returns an error    *)
(***************************************************************************)
SegAlphabet == {CR, LF, "a"}

SegInputs == UNION {[1..n -> SegAlphabet] : n \in 0..MaxSegLen}

\* the bytes split across at most two reads
Chunks(bytes, cut) ==
    IF bytes = <<>> THEN <<>>
    ELSE IF cut = 0 \/ cut >= Len(bytes) THEN <<bytes>>
    ELSE <<SliceTo(bytes, cut), SliceFrom(bytes, cut)>>

SegStart(bytes, cut, srcEnd, eofWithLast) ==
    LET b == [chunks |-> Chunks(bytes, cut), srcEnd |-> srcEnd,
              eofWithLast |-> eofWithLast]
    IN [phase |-> "run", input |-> b, bytes |-> bytes,
        sc |-> newEventScanner(b), out |-> <<>>, err |-> "nil"]

InitSeg ==
    /\ InitClient
    /\ seg \in {SegStart(bytes, cut, e, w) :
                  bytes \in SegInputs, cut \in 0..MaxSegLen,
                  e \in {"EOF", "ERR"}, w \in BOOLEAN}
    /\ dec = DecOff

clientVars == <<sessVars, regVars, callerVars, crashed>>

\* scanEvent returns a frame; exhausted tells whether the source had
\* already ended when the split function cut it
SegScanFrame ==
    /\ seg.phase = "run"
    /\ LET r == scanEvent(seg.sc)
       IN /\ r.err = "nil"
          /\ seg' = [seg EXCEPT !.sc = r.sc,
                                !.out = Append(@, [bytes |-> r.bytes,
                                                   exhausted |-> r.sc.err # "nil"])]
    /\ UNCHANGED <<clientVars, dec>>

\* scanEvent returns an error: io.EOF or the read error
SegScanEnd ==
    /\ seg.phase = "run"
    /\ LET r == scanEvent(seg.sc)
       IN /\ r.err # "nil"
          /\ seg' = [seg EXCEPT !.sc = r.sc, !.err = r.err, !.phase = "end"]
    /\ UNCHANGED <<clientVars, dec>>

NextSeg == SegScanFrame \/ SegScanEnd

SpecSeg == InitSeg /\ [][NextSeg]_vars

(***************************************************************************)
(* The decoder on its own: readEvent called on one frame                   *)
(***************************************************************************)
DATA == <<"d", "a", "t", "a">>
\* the lines a frame is made of, each with the kind of line it is
DecLines ==
    { [text |-> DATA \o <<COLON, "1">>, kind |-> "data"],
      [text |-> DATA \o <<COLON, SPACE, "2">>, kind |-> "data"],
      [text |-> DATA, kind |-> "data"],
      [text |-> DATA \o <<COLON, "1", COLON, "2">>, kind |-> "data"],
      [text |-> <<"i", "d", COLON, "1">>, kind |-> "id"],
      [text |-> <<"i", "d", COLON, NUL>>, kind |-> "id"],
      [text |-> <<"e", "v", "e", "n", "t", COLON, "1">>, kind |-> "event"],
      [text |-> <<"r", "e", "t", "r", "y", COLON, "1">>, kind |-> "retry"],
      [text |-> <<COLON>> \o DATA \o <<COLON, "1">>, kind |-> "comment"],
      [text |-> <<"x", COLON, "1">>, kind |-> "unknown"],
      [text |-> <<"i", "d", "x", COLON, "1">>, kind |-> "unknown"],
      [text |-> <<"x">>, kind |-> "unknown"] }

DecTerms == {<<LF>>, <<CR>>, <<CR, LF>>}

DecInputs == UNION {[1..n -> DecLines] : n \in 0..MaxLines}

RECURSIVE JoinLines(_, _)
JoinLines(lines, term) ==
    IF lines = <<>> THEN <<>>
    ELSE IF Len(lines) = 1 THEN lines[1].text
    ELSE lines[1].text \o term \o JoinLines(Tail(lines), term)

\* the lines joined by a line terminator, optionally one after the last
DecFrame(lines, term, trailing) ==
    JoinLines(lines, term) \o (IF trailing THEN term ELSE <<>>)

DecStart(lines, term, trailing) ==
    [phase |-> "in", lines |-> lines, term |-> term, trailing |-> trailing,
     frame |-> DecFrame(lines, term, trailing),
     res |-> [ok |-> FALSE, event |-> NewEvent]]

InitDec ==
    /\ InitClient
    /\ seg = SegOff
    /\ dec \in {DecStart(lines, term, trailing) :
                  lines \in DecInputs, term \in DecTerms, trailing \in BOOLEAN}

\* readEvent returns an Event
ReadEventOK ==
    /\ dec.phase = "in"
    /\ LET r == readEvent(dec.frame)
       IN /\ r.ok
          /\ dec' = [dec EXCEPT !.res = r, !.phase = "out"]
    /\ UNCHANGED <<clientVars, seg>>

\* readEvent returns the "data is empty" error
ReadEventFails ==
    /\ dec.phase = "in"
    /\ LET r == readEvent(dec.frame)
       IN /\ ~r.ok
          /\ dec' = [dec EXCEPT !.res = r, !.phase = "out"]
    /\ UNCHANGED <<clientVars, seg>>

NextDec == ReadEventOK \/ ReadEventFails

SpecDec == InitDec /\ [][NextDec]_vars

(***************************************************************************)
(* Properties                                                              *)
(***************************************************************************)
RECURSIVE AllEvents(_)
\* the events of the frames a scanner still yields, in stream order: one
\* for every frame readEvent decodes
AllEvents(sc) ==
    LET r == scanEvent(sc)
    IN IF r.err # "nil" THEN <<>>
       ELSE (IF readEvent(r.bytes).ok THEN <<readEvent(r.bytes).event>> ELSE <<>>)
            \o AllEvents(r.sc)

IsPrefix(p, q) == Len(p) <= Len(q) /\ SubSeq(q, 1, Len(p)) = p

\* the goroutine has returned: the deferred teardown is running or is over
Returned == {"teardownLock", "teardownWrite", "done"}

\* the session's HTTPClient.Do has returned
PastDo(s) == pc[s] \notin {"init", "registering", "start"}

\* no unlocked map read went wrong: the process runs and every select
\* waits on the session's own stop channel
NoRaceOutcome ==
    /\ ~crashed
    /\ \A s \in Sessions : pc[s] = "recv" => selCh[s] = "stop"

\* without StopStream nothing more can happen: every session is over or
\* waits in its select for a stop request (no action of NextNoStop is
\* enabled in such a state)
QuietNoStop ==
    /\ NoRaceOutcome
    /\ \A s \in Sessions : pc[s] \in {"recv", "done"}

\* C1: with a receiving consumer and no StopStream, a status-200 session
\* delivers every frame that decodes as exactly one event, in stream order:
\* what was delivered is always a prefix of the decoded frames, and once
\* nothing more can happen it is all of them.
C1_EveryFrameDelivered ==
    \A s \in Sessions :
        (PastDo(s) /\ resp[s] = "200") =>
            /\ IsPrefix(evSent[s], AllEvents(newEventScanner(body[s])))
            /\ QuietNoStop => evSent[s] = AllEvents(newEventScanner(body[s]))

\* C2: with a receiving consumer and no StopStream, a status-200 session
\* whose body ends with end-of-stream (no read error) sends
\* ErrStreamIsClosed on the error channel and terminates: once nothing more
\* can happen, that is what it has done.
C2_EOFSendsStreamClosed ==
    \A s \in Sessions :
        (PastDo(s) /\ resp[s] = "200" /\ body[s].srcEnd = "EOF" /\ QuietNoStop) =>
            /\ errSent[s] = <<ErrStreamIsClosed>>
            /\ pc[s] = "done"

\* C3: a session whose HTTPClient.Do failed or returned a status other than
\* 200 sends no event and exactly one error (the transport error or the
\* non-200 error), then returns into teardown, which leaves no registry
\* entry for it.
C3_TransportFailure ==
    \A s \in Sessions :
        (PastDo(s) /\ resp[s] # "200") =>
            /\ evSent[s] = <<>>
            /\ pc[s] \in {"sendErr"} \cup Returned
            /\ pc[s] = "sendErr" => errSent[s] = <<>>
            /\ pc[s] \in Returned =>
                 errSent[s] = <<IF resp[s] = "nil" THEN "DoError" ELSE "Non200Error">>
            /\ pc[s] = "done" => s \notin currentlyStreaming

C3_Witness ==
    \E s \in Sessions :
        /\ resp[s] = "404" /\ pc[s] = "done"
        /\ errSent[s] = <<"Non200Error">>
        /\ s \notin currentlyStreaming

\* C4: once a stop request has been delivered to a session, the session
\* is in teardown, pulls no further frame and sends no further event.
C4_StopEndsSession ==
    [][\A s \in Sessions :
          /\ stopped'[s] => pc'[s] \in Returned
          /\ stopped[s] => (scanner'[s] = scanner[s] /\ evSent'[s] = evSent[s])]_vars

C4_Witness ==
    \E s \in Sessions :
        /\ stopped[s] /\ pc[s] = "done"
        /\ \A k \in Callers : callerPc[k] = "idle"

\* C5: a StopStream call that finds no registry entry for its channel sends
\* nothing: it goes straight to its Unlock and returns, and neither step
\* changes the registry, a stop channel or any session.
C5_StopUnknownIsNoop ==
    [][\A k \in Callers :
          /\ (callerPc[k] = "lookup" /\ callerTarget[k] \notin currentlyStreaming
                /\ callerPc'[k] # "lookup") =>
                 /\ callerPc'[k] = "missed"
                 /\ UNCHANGED <<sessVars, regVars, crashed>>
          /\ (callerPc[k] = "missed" /\ callerPc'[k] # "missed") =>
                 /\ callerPc'[k] = "idle"
                 /\ mutex' = Free
                 /\ UNCHANGED <<sessVars, currentlyStreaming, closedStop, crashed>>]_vars

C5_Witness ==
    \E k \in Callers :
        /\ callerPc[k] = "missed"
        /\ callerTarget[k] \in Sessions
        /\ pc[callerTarget[k]] = "done"

\* C6 as stated: every session that has terminated has sent exactly one
\* value on its error channel.
C6_ExactlyOneErrorAlways ==
    \A s \in Sessions : pc[s] = "done" => Len(errSent[s]) = 1

\* C6 amended: a session whose goroutine has returned has sent exactly one
\* value on its error channel, unless it returned because of a stop request,
\* and then it has sent none.
C6_ExactlyOneErrorUnlessStopped ==
    \A s \in Sessions :
        pc[s] \in Returned => Len(errSent[s]) = (IF stopped[s] THEN 0 ELSE 1)

C6_Witness ==
    /\ \E s \in Sessions : pc[s] = "done" /\ stopped[s] /\ errSent[s] = <<>>
    /\ \E s \in Sessions : pc[s] = "done" /\ ~stopped[s] /\ Len(errSent[s]) = 1

\* C7: a session never sends a second value on its error channel, and
\* sends no event once it has sent one.
C7_OneErrorThenNoEvent ==
    [][\A s \in Sessions :
          /\ Len(errSent'[s]) <= 1
          /\ Len(errSent[s]) >= 1 => evSent'[s] = evSent[s]]_vars

C7_Witness ==
    \E s \in Sessions :
        /\ resp[s] = "200" /\ pc[s] = "done"
        /\ errSent[s] = <<ErrStreamIsClosed>>

\* C8: a session whose request returned a response has closed the response
\* body exactly once when its teardown is over.
C8_BodyClosedOnce ==
    \A s \in Sessions :
        (pc[s] = "done" /\ resp[s] # "nil") => bodyClosed[s] = 1

(***************************************************************************)
(* Properties of the segmenter                                             *)
(***************************************************************************)
NoLineEnd(bytes) == \A i \in 1..Len(bytes) : ~IsLineEnd(bytes[i])

\* bytes is X B Y with X and Y non-empty, free of CR and LF
IsXBY(bytes, X, B, Y) ==
    /\ bytes = X \o B \o Y
    /\ X # <<>> /\ Y # <<>>
    /\ NoLineEnd(X) /\ NoLineEnd(Y)

Boundaries == {CRLFCRLF, LFLF, CRCR}

NoBoundary(bytes) == \A B \in Boundaries : ~Contains(bytes, B)

Frames == [i \in 1..Len(seg.out) |-> seg.out[i].bytes]

\* C9: for an input X B Y (X, Y non-empty without CR or LF, B one of the
\* three boundaries) whose bytes arrive before end-of-stream is reported,
\* the segmenter yields the frame X and then, the source exhausted, the
\* final frame Y, and nothing else.
C9_FramesAreXThenY ==
    \A B \in Boundaries :
        \A n \in 1..Len(seg.bytes) :
            LET X == SliceTo(seg.bytes, n)
                Y == SliceFrom(seg.bytes, n + Len(B))
            IN (/\ seg.phase = "end"
                /\ seg.input.srcEnd = "EOF"
                /\ ~seg.input.eofWithLast
                /\ n + Len(B) < Len(seg.bytes)
                /\ IsXBY(seg.bytes, X, B, Y)) => Frames = <<X, Y>>

\* C10: for an input without a boundary pattern the segmenter emits no
\* frame before the source is exhausted and never more than one frame;
\* that frame is the whole input, and there is none when the input is
\* empty.
C10_NoBoundaryOneFinalFrame ==
    NoBoundary(seg.bytes) =>
        /\ Len(seg.out) <= 1
        /\ \A i \in 1..Len(seg.out) :
              seg.out[i].exhausted /\ seg.out[i].bytes = seg.bytes
        /\ seg.bytes = <<>> => seg.out = <<>>

C10_Witness ==
    /\ seg.phase = "end"
    /\ NoBoundary(seg.bytes)
    /\ Contains(seg.bytes, <<LF>>) /\ Contains(seg.bytes, <<CR>>)
    /\ Len(seg.input.chunks) = 2
    /\ Frames = <<seg.bytes>>

(***************************************************************************)
(* Properties of the decoder                                               *)
(***************************************************************************)
\* C11: readEvent returns an error if and only if its input is zero-length;
\* every non-empty frame, whatever its lines, decodes to an Event
C11_ErrorIffEmpty ==
    dec.phase = "out" => (dec.res.ok <=> Len(dec.frame) >= 1)

\* a frame of line terminators only, decoded without error
C11_Witness ==
    /\ dec.phase = "out"
    /\ dec.lines = <<>>
    /\ dec.frame # <<>>
    /\ dec.res.ok
    /\ dec.res.event = NewEvent

Contributes(l) == l.kind \notin {"comment", "unknown"}
\* the lines of the frame without the comment lines and the lines with an
\* unrecognized field name
Kept == SelectSeq(dec.lines, Contributes)

\* C12: comment lines and lines with an unrecognized field name contribute
\* nothing: the frame decodes as the frame without them does, and a frame of
\* such lines only decodes to the all-default Event without error
C12_IgnoredLinesContributeNothing ==
    (dec.phase = "out" /\ Kept # dec.lines) =>
        /\ dec.res.ok
        /\ Kept # <<>> =>
              dec.res = readEvent(DecFrame(Kept, dec.term, dec.trailing))
        /\ Kept = <<>> => dec.res.event = NewEvent

\* a frame with an ignored line and a line that sets a field
C12_Witness ==
    /\ dec.phase = "out"
    /\ Kept # dec.lines
    /\ Kept # <<>>
    /\ dec.res.ok
    /\ dec.res.event # NewEvent

IsDataLine(l) == l.kind = "data"
DataLines == SelectSeq(dec.lines, IsDataLine)

StopWaiting(k, s) ==
    /\ callerPc[k] = "send"
    /\ callerTarget[k] = s
    /\ mutex = Holder("stop", k)

\* C13: no state is reachable in which a StopStream call waits to deliver a
\* stop while holding the mutex and the teardown of the session it targets
\* waits for that mutex (neither can ever proceed)
C13_NoStopTeardownDeadlock ==
    \A k \in Callers : \A s \in Sessions :
        ~(StopWaiting(k, s) /\ pc[s] = "teardownLock")

\* C14: every access of the registry map is made by the holder of the mutex:
\* the insert in Stream, the lookup in StopStream, the removal at teardown
\* and the session's stop-signal lookup between frames
C14_RegistryAccessUnderMutex ==
    [][/\ \A s \in Sessions :
            /\ (pc[s] = "registering" /\ pc'[s] # "registering")
                  => mutex = Holder("stream", s)
            /\ (pc[s] = "teardownWrite" /\ pc'[s] # "teardownWrite")
                  => mutex = Holder("teardown", s)
            /\ (pc[s] = "select" /\ (pc'[s] # "select" \/ crashed'))
                  => (mutex.id = s /\ mutex.kind \in {"stream", "teardown"})
        /\ \A k \in Callers :
            (callerPc[k] = "lookup" /\ callerPc'[k] # "lookup")
                  => mutex = Holder("stop", k)]_vars

\* C15: the mutex is never held across a blocking channel operation: no
\* StopStream call waits to deliver a stop to a session that is not ready to
\* receive it while the teardown of another session waits for the mutex
C15_StopDoesNotDelayOthers ==
    \A k \in Callers : \A s, o \in Sessions :
        ~(/\ StopWaiting(k, s)
          /\ pc[s] # "recv"
          /\ o # s
          /\ pc[o] = "teardownLock")

\* the sessions whose event channel Stream has registered and whose
\* teardown has not completed
Live == {s \in Sessions : pc[s] \notin {"init", "registering", "done"}}

\* C16: the registry's keys are exactly the event channels of the sessions
\* that have not completed teardown: inserted before the request is
\* performed, kept while the goroutine runs, removed (and the stop-signal
\* closed) once at teardown
C16_RegistryIsLiveSessions ==
    /\ currentlyStreaming = Live
    /\ closedStop = {s \in Sessions : pc[s] = "done"}
    /\ \A s \in Sessions : PastDo(s) => s \in currentlyStreaming \/ pc[s] = "done"

\* one session torn down and removed, another still registered and reading
C16_Witness ==
    \E s, o \in Sessions :
        /\ pc[s] = "done"
        /\ pc[o] = "scan"
        /\ currentlyStreaming = {o}
        /\ closedStop = {s}

\* C17: StopStream never sends on a closed stop-signal and no stop-signal is
\* closed twice: every channel in the registry is open, a caller about to
\* send holds an open channel, and teardown closes only an open channel
C17_NoSendOnClosedNoDoubleClose ==
    /\ currentlyStreaming \cap closedStop = {}
    /\ \A k \in Callers :
          callerPc[k] = "send" =>
              (callerTarget[k] \in currentlyStreaming \ closedStop)
    /\ \A s \in Sessions :
          (pc[s] = "teardownWrite" /\ HasEntry(s)) => s \notin closedStop

\* StopStream called for a session whose teardown has closed the
\* stop-signal: the lookup misses and nothing is sent
C17_Witness ==
    \E k \in Callers :
        /\ callerPc[k] = "missed"
        /\ callerTarget[k] \in closedStop
        /\ callerTarget[k] \notin currentlyStreaming

(***************************************************************************)
(* Properties of the segmenter: choice of the boundary, read splitting     *)
(***************************************************************************)
\* the lowest offset at which one of the boundary patterns starts
FirstBoundaryOffset(bytes) ==
    LET offs == {Index(bytes, B) : B \in {P \in Boundaries : Contains(bytes, P)}}
    IN CHOOSE i \in offs : \A j \in offs : i <= j

\* C18: with the whole input in the buffer and the source not exhausted, the
\* first frame is cut at the boundary pattern that starts at the lowest
\* offset, whichever of the three it is
C18_CutsAtLowestOffset ==
    (/\ Len(seg.input.chunks) = 1
     /\ ~seg.input.eofWithLast
     /\ ~NoBoundary(seg.bytes)
     /\ Len(seg.out) >= 1
     /\ ~seg.out[1].exhausted)
        => seg.out[1].bytes = SliceTo(seg.bytes, FirstBoundaryOffset(seg.bytes))

RECURSIVE FramesOf(_)
\* the frames a scanner yields until scanEvent returns an error
FramesOf(sc) ==
    LET r == scanEvent(sc)
    IN IF r.err # "nil" THEN <<>> ELSE <<r.bytes>> \o FramesOf(r.sc)

\* the same bytes returned by a single read, the end reported by a later
\* empty read
OneRead(bytes, srcEnd) ==
    [chunks |-> Chunks(bytes, 0), srcEnd |-> srcEnd, eofWithLast |-> FALSE]

\* C19: the frames emitted for a byte stream do not depend on how the source
\* splits the bytes across reads nor on whether the end is reported with the
\* last bytes: they are the frames of the same bytes returned by one read
\* and ended by a later empty read
C19_FramesIndependentOfReads ==
    seg.phase = "end" =>
        Frames = FramesOf(newEventScanner(OneRead(seg.bytes, seg.input.srcEnd)))
====
